---- MODULE Spec2Model ----
(***************************************************************************)
(* Model of the OpenAPI coverage engine: CoverageModel (the ledger, the    *)
(* path matcher, the call recorder, the report generator) and the          *)
(* OpenApiCoverage integration class that hooks it onto Axios instances.   *)
(*                                                                         *)
(* Strings that the code inspects character by character (paths, URLs,     *)
(* methods) are sequences of one-character strings.  Status codes are      *)
(* numbers on a response and strings in a contract and in the ledger.      *)
(***************************************************************************)
EXTENDS Integers, Sequences, FiniteSets, TLC

VARIABLES
    specs,          \* CoverageModel.specs: the documents handed to registerSpecFromYaml
    coverage,       \* CoverageModel.coverage: path -> method -> {responses: status -> count}
    pathRegexList,  \* CoverageModel.pathRegexList: <<[regex, path], ...>> in push order
    outputFormat,   \* CoverageModel.outputFormat
    files,          \* the two report files under outputPath, written or not yet
    interceptors,   \* per Axios instance: response interceptors this engine registered on it
    result,         \* the latest operation: its input, what its caller got, what it printed
    recorded,       \* history: per triple, handleResponse calls that resolved to it
    nCalls          \* history: exchanges delivered by the HTTP clients so far

vars == <<specs, coverage, pathRegexList, outputFormat, files, interceptors,
          result, recorded, nCalls>>

(***************************************************************************)
(* Bounds of the model.                                                    *)
(***************************************************************************)
MaxSpecs == 2
MaxCalls == 2
MaxInterceptors == 2

(***************************************************************************)
(* An object without entries.                                              *)
(***************************************************************************)
EmptyMap == [x \in {} |-> 0]

\* `${undefined}` inside a template literal
UndefinedText == <<"u","n","d","e","f","i","n","e","d">>

(***************************************************************************)
(* Declared paths, prefixes and URLs used as inputs.                       *)
(***************************************************************************)
PItems == <<"/","i","t","e","m","s">>
PUsersId == <<"/","u","s","e","r","s","/","{","i","d","}">>
PUsersMe == <<"/","u","s","e","r","s","/","m","e">>
POrders == <<"/","o","r","d","e","r","s">>
PBad == <<"/","b","a","d">>
ProxyPath == <<"/","{","p","r","o","x","y","+","}">>
PrefixV1 == <<"/","v","1">>
Origin == <<"h","t","t","p","s",":","/","/","a","p","i",".","e","x","a","m","p","l","e",".","c","o","m">>

MGet == <<"g","e","t">>
MGetUpper == <<"G","E","T">>
MPost == <<"p","o","s","t">>

(***************************************************************************)
(* String helpers.                                                         *)
(***************************************************************************)
\* String.prototype.toLowerCase on the letters the inputs use
LowerChar(c) ==
    CASE c = "G" -> "g"
      [] c = "E" -> "e"
      [] c = "T" -> "t"
      [] OTHER -> c

ToLowerCase(s) == [i \in DOMAIN s |-> LowerChar(s[i])]

Digit(d) == CASE d = 0 -> "0" [] d = 1 -> "1" [] d = 2 -> "2" [] d = 3 -> "3"
              [] d = 4 -> "4" [] d = 5 -> "5" [] d = 6 -> "6" [] d = 7 -> "7"
              [] d = 8 -> "8" [] d = 9 -> "9"

\* Number.prototype.toString of a non-negative integer
RECURSIVE NumberToString(_)
NumberToString(n) ==
    IF n < 10 THEN <<Digit(n)>> ELSE Append(NumberToString(n \div 10), Digit(n % 10))

\* does t occur in s at position i
OccursAt(s, t, i) ==
    /\ i + Len(t) - 1 <= Len(s)
    /\ \A k \in 1..Len(t) : s[i + k - 1] = t[k]

\* String.prototype.replace(t, r) with a string pattern: the first occurrence only
ReplaceFirst(s, t, r) ==
    LET hits == {i \in 1..Len(s) : OccursAt(s, t, i)} IN
    IF hits = {} THEN s
    ELSE LET i == CHOOSE h \in hits : \A g \in hits : h <= g IN
         SubSeq(s, 1, i - 1) \o r \o SubSeq(s, i + Len(t), Len(s))

(***************************************************************************)
(* pathToRegex and RegExp.test.  A compiled expression is a sequence whose *)
(* elements are pattern characters or Wild, the text [\S]+ that replaces a *)
(* placeholder.                                                            *)
(***************************************************************************)
Wild == "[\\S]+"

\* position of the first "}" at or after i, 0 when there is none
RECURSIVE FirstClose(_, _)
FirstClose(s, i) ==
    IF i > Len(s) THEN 0 ELSE IF s[i] = "}" THEN i ELSE FirstClose(s, i + 1)

\* path.replace(/{[^}]+}/g, '[\\S]+'), scanning from position i
RECURSIVE ReplacePlaceholders(_, _)
ReplacePlaceholders(s, i) ==
    IF i > Len(s) THEN <<>>
    ELSE LET close == FirstClose(s, i + 1) IN
         IF s[i] = "{" /\ close >= i + 2
         THEN <<Wild>> \o ReplacePlaceholders(s, close + 1)
         ELSE <<s[i]>> \o ReplacePlaceholders(s, i + 1)

\* the second replace has a string, not an expression, as its pattern: the
\* four characters ///g
PathToRegex(path) ==
    ReplaceFirst(ReplacePlaceholders(path, 1), <<"/","/","/","g">>, <<"/">>)

\* \S: anything but white space
NonWhitespace(c) == c /= " "

\* one pattern character against one input character; of the characters with
\* a meaning in an expression the templates hold only the dot
CharMatches(p, c) == IF p = "." THEN TRUE ELSE p = c

\* ^regex$ against s, from pattern position i and input position j
RECURSIVE MatchFrom(_, _, _, _)
MatchFrom(regex, i, s, j) ==
    IF i > Len(regex) THEN j > Len(s)
    ELSE IF regex[i] = Wild
         THEN \E k \in j..Len(s) :
                  /\ \A m \in j..k : NonWhitespace(s[m])
                  /\ MatchFrom(regex, i + 1, s, k + 1)
         ELSE /\ j <= Len(s)
              /\ CharMatches(regex[i], s[j])
              /\ MatchFrom(regex, i + 1, s, j + 1)

RegexTest(regex, s) == MatchFrom(regex, 1, s, 1)

\* a loop that falls through to the path it looked at last instead of null
MatchPathFallingThrough(list, urlPath) ==
    LET hits == {i \in 1..Len(list) : MatchFrom(list[i].regex, 1, urlPath, 1)} IN
    IF list = <<>> THEN [found |-> FALSE]
    ELSE IF hits = {} THEN [found |-> TRUE, path |-> list[Len(list)].path]
    ELSE [found |-> TRUE, path |-> list[CHOOSE i \in hits : \A j \in hits : i <= j].path]

\* a loop that keeps looking after a match and returns the last one
MatchPathLastWins(list, urlPath) ==
    LET hits == {i \in 1..Len(list) : MatchFrom(list[i].regex, 1, urlPath, 1)} IN
    IF hits = {} THEN [found |-> FALSE]
    ELSE [found |-> TRUE, path |-> list[CHOOSE i \in hits : \A j \in hits : j <= i].path]

\* matchPath over the list from position i: [found, path]
RECURSIVE MatchPathFrom(_, _, _)
MatchPathFrom(list, urlPath, i) ==
    IF i > Len(list) THEN [found |-> FALSE]
    ELSE IF RegexTest(list[i].regex, urlPath)
         THEN [found |-> TRUE, path |-> list[i].path]
         ELSE MatchPathFrom(list, urlPath, i + 1)

MatchPath(list, urlPath) == MatchPathFrom(list, urlPath, 1)

(***************************************************************************)
(* normalizePath: the template literal, then new URL(...).pathname for an  *)
(* http(s) URL without credentials, port, dot segments or escapes.         *)
(***************************************************************************)
SchemeLen(s) ==
    IF OccursAt(s, <<"h","t","t","p","s",":">>, 1) THEN 6
    ELSE IF OccursAt(s, <<"h","t","t","p",":">>, 1) THEN 5
    ELSE 0

\* first position at or after i whose character is in cs, Len(s) + 1 when none
RECURSIVE FirstOf(_, _, _)
FirstOf(s, cs, i) ==
    IF i > Len(s) THEN Len(s) + 1
    ELSE IF s[i] \in cs THEN i ELSE FirstOf(s, cs, i + 1)

\* first position at or after i whose character is not a slash
RECURSIVE SkipSlashes(_, _)
SkipSlashes(s, i) ==
    IF i <= Len(s) /\ s[i] = "/" THEN SkipSlashes(s, i + 1) ELSE i

\* a pathname that keeps the query string and the fragment
ParseURLKeepingQuery(s) ==
    LET n == SchemeLen(s)
        h == SkipSlashes(s, n + 1)
        p == FirstOf(s, {"/", "?", "#"}, h)
    IN IF n = 0 \/ p = h THEN [ok |-> FALSE]
       ELSE [ok |-> TRUE, pathname |-> IF p > Len(s) THEN <<"/">> ELSE SubSeq(s, p, Len(s))]

\* [ok, pathname]; not ok: the constructor throws TypeError (Invalid URL)
ParseURL(s) ==
    LET n == SchemeLen(s)
        h == SkipSlashes(s, n + 1)
        p == FirstOf(s, {"/", "?", "#"}, h)
        q == FirstOf(s, {"?", "#"}, p)
    IN IF n = 0 \/ p = h THEN [ok |-> FALSE]
       ELSE [ok |-> TRUE, pathname |-> IF q = p THEN <<"/">> ELSE SubSeq(s, p, q - 1)]

Has(obj, field) == field \in DOMAIN obj

\* config: the request config, url and baseURL present or not
EffectiveURL(config) ==
    IF Has(config, "baseURL") /\ config.baseURL /= <<>>
    THEN config.baseURL \o (IF Has(config, "url") THEN config.url ELSE UndefinedText)
    ELSE IF Has(config, "url") THEN config.url ELSE <<>>

\* [ok, pathname]; not ok: an Error is thrown
NormalizePath(config) ==
    LET effectiveURL == EffectiveURL(config) IN
    IF effectiveURL = <<>> THEN [ok |-> FALSE] ELSE ParseURL(effectiveURL)

(***************************************************************************)
(* Contract documents as yaml.load returns them: paths in document order,  *)
(* each with its methods in document order; a method entry may lack its    *)
(* responses mapping.                                                      *)
(***************************************************************************)
S200 == <<"2","0","0">>
S201 == <<"2","0","1">>
S404 == <<"4","0","4">>

Op(method, statuses) == [method |-> method, entry |-> [responses |-> statuses]]
OpWithoutResponses(method) == [method |-> method, entry |-> [summary |-> "x"]]

DocItems ==
    [paths |-> << [path |-> PItems, entry |-> << Op(MGet, {S200}) >>] >>]
DocUsers ==
    [paths |-> << [path |-> PUsersId, entry |-> << Op(MGet, {S200, S404}) >>],
                  [path |-> PUsersMe, entry |-> << Op(MGet, {S200}) >>] >>]
DocItemsProxy ==
    [paths |-> << [path |-> ProxyPath, entry |-> << Op(MGet, {S200}) >>],
                  [path |-> PItems, entry |-> << Op(MGet, {S200, S404}), Op(MPost, {S201}) >>] >>]
DocBad ==
    [paths |-> << [path |-> POrders, entry |-> << Op(MGet, {S200}) >>],
                  [path |-> PBad, entry |-> << OpWithoutResponses(MGet) >>],
                  [path |-> PUsersMe, entry |-> << Op(MGet, {S200}) >>] >>]

\* a document whose method key is written in upper case
DocUpper ==
    [paths |-> << [path |-> PItems, entry |-> << Op(MGetUpper, {S200}) >>] >>]

\* the files a test run can name; MissingFile is not on disk
MissingFile == [missing |-> TRUE]
SpecFiles == {DocItems, DocUsers, DocItemsProxy, DocBad, DocUpper}

\* the registrations of a test run: a file and the options given with it
NoOptions == [none |-> TRUE]
Registrations ==
    {<<f, NoOptions>> : f \in SpecFiles \cup {MissingFile}}
    \cup {<<DocItems, [pathPrefix |-> PrefixV1]>>,
          <<DocItemsProxy, [pathPrefix |-> PrefixV1]>>}

(***************************************************************************)
(* initializeCoverage.                                                     *)
(***************************************************************************)
\* responses[status] = 0 without the test before it
EnsureCounterUnguarded(responses, status) == 0

\* if (!responses[status]) responses[status] = 0: the value the counter has afterwards
EnsureCounter(responses, status) ==
    IF status \in DOMAIN responses /\ responses[status] /= 0 THEN responses[status] ELSE 0

\* the loop over Object.entries(methodEntry.responses)
StatusLoop(responses, statuses) ==
    [s \in (DOMAIN responses) \cup statuses |->
        IF s \in statuses THEN EnsureCounter(responses, s) ELSE responses[s]]

\* the loop over Object.entries(pathEntry) from position k; methods is
\* coverage[path]; threw: Object.entries(undefined) raised a TypeError
RECURSIVE MethodLoop(_, _, _)
MethodLoop(methods, entry, k) ==
    IF k > Len(entry) THEN [methods |-> methods, threw |-> FALSE]
    ELSE LET m == entry[k].method
             withM == IF m \in DOMAIN methods THEN methods
                      ELSE methods @@ (m :> [responses |-> EmptyMap])
         IN IF ~Has(entry[k].entry, "responses")
            THEN [methods |-> withM, threw |-> TRUE]
            ELSE MethodLoop(
                     [withM EXCEPT ![m].responses = StatusLoop(@, entry[k].entry.responses)],
                     entry, k + 1)

\* the loop without the test for the catch-all path
RECURSIVE PathLoopWithCatchAll(_, _, _, _, _)
PathLoopWithCatchAll(cov, list, paths, pathPrefix, k) ==
    IF k > Len(paths) THEN [coverage |-> cov, list |-> list, threw |-> FALSE]
    ELSE LET path == paths[k].path
             pushed == Append(list, [regex |-> PathToRegex(pathPrefix \o path), path |-> path])
             withP == IF path \in DOMAIN cov THEN cov ELSE cov @@ (path :> EmptyMap)
             done == MethodLoop(withP[path], paths[k].entry, 1)
             after == [withP EXCEPT ![path] = done.methods]
         IN IF done.threw THEN [coverage |-> after, list |-> pushed, threw |-> TRUE]
            ELSE PathLoopWithCatchAll(after, pushed, paths, pathPrefix, k + 1)

\* the loop over Object.entries(spec.paths) from position k: [coverage, list, threw]
RECURSIVE PathLoop(_, _, _, _, _)
PathLoop(cov, list, paths, pathPrefix, k) ==
    IF k > Len(paths) THEN [coverage |-> cov, list |-> list, threw |-> FALSE]
    ELSE IF paths[k].path = ProxyPath THEN PathLoop(cov, list, paths, pathPrefix, k + 1)
    ELSE LET path == paths[k].path
             pushed == Append(list, [regex |-> PathToRegex(pathPrefix \o path), path |-> path])
             withP == IF path \in DOMAIN cov THEN cov ELSE cov @@ (path :> EmptyMap)
             done == MethodLoop(withP[path], paths[k].entry, 1)
             after == [withP EXCEPT ![path] = done.methods]
         IN IF done.threw THEN [coverage |-> after, list |-> pushed, threw |-> TRUE]
            ELSE PathLoop(after, pushed, paths, pathPrefix, k + 1)

\* the expressions compiled from the declared paths alone, the prefix dropped
InitializeCoverageWithoutPrefix(cov, list, spec, options) ==
    PathLoop(cov, list, spec.paths, <<>>, 1)

InitializeCoverage(cov, list, spec, options) ==
    PathLoop(cov, list, spec.paths,
             IF Has(options, "pathPrefix") THEN options.pathPrefix ELSE <<>>, 1)

(***************************************************************************)
(* The ledger as a set of (path, method, status) triples.                  *)
(***************************************************************************)
Triples(cov) ==
    UNION {UNION {{<<p, m, s>> : s \in DOMAIN cov[p][m].responses}
                  : m \in DOMAIN cov[p]} : p \in DOMAIN cov}

Count(cov, t) == cov[t[1]][t[2]].responses[t[3]]

RECURSIVE SumOver(_, _)
SumOver(cov, ts) ==
    IF ts = {} THEN 0
    ELSE LET t == CHOOSE x \in ts : TRUE IN Count(cov, t) + SumOver(cov, ts \ {t})

Total(cov) == SumOver(cov, Triples(cov))

(***************************************************************************)
(* generateCoverageRecords: every counter as a record, sorted with         *)
(* String.prototype.localeCompare.  The comparison is the root collation   *)
(* on the model's characters: punctuation before digits before letters,    *)
(* letters compared without case first and lower case before upper case    *)
(* when nothing else differs.                                              *)
(***************************************************************************)
CollationOrder ==
    <<"-", ":", "?", ".", "{", "}", "/", "#", "+", "=",
      "0", "1", "2", "3", "4", "5", "6", "7", "8", "9",
      "a", "b", "c", "d", "e", "f", "g", "h", "i", "j", "k", "l", "m",
      "n", "o", "p", "q", "r", "s", "t", "u", "v", "w", "x", "y", "z">>

RankTable ==
    [c \in {CollationOrder[i] : i \in 1..Len(CollationOrder)} |->
        CHOOSE i \in 1..Len(CollationOrder) : CollationOrder[i] = c]

Rank(c) == RankTable[LowerChar(c)]

\* -1, 0 or 1 from position i on, by the letters alone
RECURSIVE ComparePrimary(_, _, _)
ComparePrimary(a, b, i) ==
    IF i > Len(a) /\ i > Len(b) THEN 0
    ELSE IF i > Len(a) THEN -1
    ELSE IF i > Len(b) THEN 1
    ELSE IF a[i] = b[i] THEN ComparePrimary(a, b, i + 1)
    ELSE IF Rank(a[i]) < Rank(b[i]) THEN -1
    ELSE IF Rank(a[i]) > Rank(b[i]) THEN 1
    ELSE ComparePrimary(a, b, i + 1)

\* -1, 0 or 1 from position i on, by case, for strings with the same letters
RECURSIVE CompareCase(_, _, _)
CompareCase(a, b, i) ==
    IF i > Len(a) THEN 0
    ELSE IF a[i] = b[i] THEN CompareCase(a, b, i + 1)
    ELSE IF a[i] = LowerChar(a[i]) THEN -1 ELSE 1

ByCaseWhenEqual(primary, a, b) == IF primary /= 0 THEN primary ELSE CompareCase(a, b, 1)

LocaleCompare(a, b) == ByCaseWhenEqual(ComparePrimary(a, b, 1), a, b)

\* a comparator that looks at the status first and at the path last
CompareRecordsStatusFirst(a, b) ==
    IF a.status /= b.status THEN LocaleCompare(a.status, b.status)
    ELSE IF a.method /= b.method THEN LocaleCompare(a.method, b.method)
    ELSE LocaleCompare(a.path, b.path)

\* the comparator handed to Array.prototype.sort
CompareRecords(a, b) ==
    IF a.path /= b.path THEN LocaleCompare(a.path, b.path)
    ELSE IF a.method /= b.method THEN LocaleCompare(a.method, b.method)
    ELSE LocaleCompare(a.status, b.status)

\* the largest member of a set of positions, 0 for the empty set
LastOf(positions) ==
    IF positions = {} THEN 0 ELSE CHOOSE i \in positions : \A j \in positions : j <= i

InsertAfter(sorted, r, n) ==
    SubSeq(sorted, 1, n) \o <<r>> \o SubSeq(sorted, n + 1, Len(sorted))

\* r put into the sorted sequence: after the last record that is not behind it
InsertRecord(sorted, r) ==
    InsertAfter(sorted, r, LastOf({i \in 1..Len(sorted) : CompareRecords(sorted[i], r) <= 0}))

\* Array.prototype.sort of the records; no two of them compare equal
RECURSIVE SortRecords(_)
SortRecords(rs) ==
    IF rs = {} THEN <<>>
    ELSE LET r == CHOOSE x \in rs : TRUE IN InsertRecord(SortRecords(rs \ {r}), r)

GenerateCoverageRecords(cov) ==
    SortRecords({[path |-> t[1], method |-> t[2], status |-> t[3], count |-> Count(cov, t)]
                 : t \in Triples(cov)})

\* a table that pushes a row for every record, whatever the option says
GenerateCoverageTableAllRows(cov, showZeroCounts) == GenerateCoverageRecords(cov)

\* the data rows of the console table
GenerateCoverageTable(cov, showZeroCounts) ==
    SelectSeq(GenerateCoverageRecords(cov), LAMBDA r : showZeroCounts \/ r.count > 0)

\* the table rows of the HTML document, a zero count wrapped in a red span
HtmlRows(records) ==
    [i \in DOMAIN records |-> [record |-> records[i], red |-> records[i].count = 0]]

GenerateHtmlCoverage(cov) == HtmlRows(GenerateCoverageRecords(cov))

\* files written whatever the output format is
WriteCoverageToFileAlways(cov, fmt, old) ==
    [written |-> TRUE, json |-> cov, html |-> GenerateHtmlCoverage(cov)]

\* the files after writeCoverageToFile
WriteCoverageToFile(cov, fmt, old) ==
    IF fmt = "html"
    THEN [written |-> TRUE, json |-> cov, html |-> GenerateHtmlCoverage(cov)]
    ELSE old

(***************************************************************************)
(* The exchanges the instrumented clients deliver.                         *)
(***************************************************************************)
Instances == {"first", "another"}

UItems == PItems
UItemsQuery == PItems \o <<"?","q","=","1","#","f">>
UV1Items == PrefixV1 \o PItems
UUsers42 == <<"/","u","s","e","r","s","/","4","2">>
UUsersAbc1 == <<"/","u","s","e","r","s","/","a","b","c","-","1">>
UUsers42Sessions == UUsers42 \o <<"/","s","e","s","s","i","o","n","s">>
UUsers == <<"/","u","s","e","r","s">>
UUsersMe == PUsersMe

\* url relative to the client's baseURL; url absolute; url relative without
\* a baseURL; neither; a baseURL alone
CfgBase(method, url) == [method |-> method, url |-> url, baseURL |-> Origin]
CfgAbsolute(method, url) == [method |-> method, url |-> Origin \o url]
CfgRelative(method, url) == [method |-> method, url |-> url]
CfgNone(method) == [method |-> method]
CfgBaseOnly(method) == [method |-> method, baseURL |-> Origin]

Response(config, status) == [config |-> config, status |-> status]

Responses ==
    {Response(CfgBase(MGet, u), 200) :
        u \in {UItems, UItemsQuery, UV1Items, UUsers42, UUsersAbc1, UUsers42Sessions,
               UUsers, UUsersMe}}
    \cup {Response(CfgAbsolute(MGet, UItems), 200),
          Response(CfgBase(MGetUpper, UItems), 200),
          Response(CfgBase(MPost, UItems), 201),
          Response(CfgBase(MPost, UUsersMe), 200),
          Response(CfgBase(MGet, UItems), 404),
          Response(CfgBase(MGet, UUsers42), 404),
          Response(CfgRelative(MGet, UItems), 200),
          Response(CfgNone(MGet), 200),
          Response(CfgBaseOnly(MGet), 200)}

\* an AxiosError: without a response (the request never got one), or with
\* the response of a failed status; its own status field exists only in
\* later Axios versions
NetworkError(config) == [config |-> config, isAxiosError |-> TRUE]
HttpError(response) == [config |-> response.config, response |-> response, isAxiosError |-> TRUE]
HttpErrorWithStatus(response) ==
    [config |-> response.config, response |-> response, status |-> response.status,
     isAxiosError |-> TRUE]

Errors ==
    {NetworkError(CfgBase(MGet, UItems))}
    \cup {HttpError(r) : r \in {Response(CfgBase(MGet, UItems), 404),
                                Response(CfgBase(MGet, UUsers42), 404),
                                Response(CfgNone(MGet), 404)}}
    \cup {HttpErrorWithStatus(Response(CfgBase(MGet, UUsers42), 404))}

\* normalizePath(url, baseURL) of every request config of the exchanges above
NormalizedPaths ==
    [c \in {r.config : r \in Responses} \cup {e.config : e \in Errors} |-> NormalizePath(c)]

(***************************************************************************)
(* handleResponse and handleFailedResponse.  Both are async: whatever is   *)
(* thrown inside them rejects the promise they return.  Each gives         *)
(* [coverage, files, promise, warned].                                     *)
(***************************************************************************)
\* the statements of handleResponse that can throw: response.status.toString()
\* on a missing status, and normalizePath
Throws(v) == ~Has(v, "status") \/ ~NormalizedPaths[v.config].ok

\* the counter the two if statements of handleResponse select: [hit, triple]
Select(cov, matched, normalizedMethod, status) ==
    IF /\ matched.found
       /\ matched.path \in DOMAIN cov
       /\ normalizedMethod \in DOMAIN cov[matched.path]
       /\ status \in DOMAIN cov[matched.path][normalizedMethod].responses
    THEN [hit |-> TRUE, triple |-> <<matched.path, normalizedMethod, status>>]
    ELSE [hit |-> FALSE]

Target(cov, list, v) ==
    Select(cov, MatchPath(list, NormalizedPaths[v.config].pathname),
           ToLowerCase(v.config.method), NumberToString(v.status))

\* responses[status] = 1 in place of the increment
IncrementAsAssignment(cov, t) == [cov EXCEPT ![t[1]][t[2]].responses[t[3]] = 1]

\* responses[status]++
Increment(cov, t) == [cov EXCEPT ![t[1]][t[2]].responses[t[3]] = @ + 1]

\* the counting if statements, given what they select
Count1(cov, target) == IF target.hit THEN Increment(cov, target.triple) ELSE cov

\* the end of handleResponse: the write, and the promise fulfilled
Written(after, fls, fmt) ==
    [coverage |-> after, files |-> WriteCoverageToFile(after, fmt, fls),
     promise |-> "fulfilled", warned |-> FALSE]

HandleResponse(cov, fls, list, fmt, v) ==
    IF Throws(v)
    THEN [coverage |-> cov, files |-> fls, promise |-> "rejected", warned |-> FALSE]
    ELSE Written(Count1(cov, Target(cov, list, v)), fls, fmt)

\* the warning for every error, the response it carries never looked at
HandleFailedResponseWarningOnly(cov, fls, list, fmt, error) ==
    [coverage |-> cov, files |-> fls, promise |-> "fulfilled", warned |-> TRUE]

HandleFailedResponse(cov, fls, list, fmt, error) ==
    IF Has(error, "response")
    THEN HandleResponse(cov, fls, list, fmt, error.response)
    ELSE [coverage |-> cov, files |-> fls, promise |-> "fulfilled", warned |-> TRUE]

(***************************************************************************)
(* The response interceptors of one Axios instance.  Axios chains them     *)
(* with promise.then(onFulfilled, onRejected) in registration order; a     *)
(* handler's return value settles the next link.  Neither handler awaits   *)
(* or returns the promise of the model's method, and both return their     *)
(* argument, so every link after the first is fulfilled.                   *)
(***************************************************************************)
\* history: the triple a handleResponse call on v resolves to, counted up
CountUp(rec, target) ==
    IF ~target.hit THEN rec
    ELSE IF target.triple \in DOMAIN rec THEN [rec EXCEPT ![target.triple] = @ + 1]
    ELSE rec @@ (target.triple :> 1)

Note(rec, cov, list, v) == IF Throws(v) THEN rec ELSE CountUp(rec, Target(cov, list, v))

\* a handler that called fn, got r from it, and returns value
Handled(es, r, rec, fn, value) ==
    [es |-> [coverage |-> r.coverage, files |-> r.files, recorded |-> rec,
             calls |-> Append(es.calls, [fn |-> fn, promise |-> r.promise,
                                         warned |-> r.warned])],
     settled |-> "fulfilled", value |-> value]

\* the fulfilled handler of registerInterceptor: [es, settled, value]
OnFulfilled(es, list, fmt, response) ==
    Handled(es, HandleResponse(es.coverage, es.files, list, fmt, response),
            Note(es.recorded, es.coverage, list, response), "handleResponse", response)

\* the rejected handler of registerInterceptor: [es, settled, value]
OnRejected(es, list, fmt, error) ==
    Handled(es, HandleFailedResponse(es.coverage, es.files, list, fmt, error),
            IF Has(error, "response")
            THEN Note(es.recorded, es.coverage, list, error.response)
            ELSE es.recorded,
            "handleFailedResponse", error)

\* k links of the chain, entered with the promise settled as given
RECURSIVE RunChain(_, _, _, _, _, _)
RECURSIVE Settle(_, _, _, _)
RunChain(es, list, fmt, settled, value, k) ==
    IF k = 0 THEN [es |-> es, settled |-> settled, value |-> value]
    ELSE Settle(IF settled = "fulfilled" THEN OnFulfilled(es, list, fmt, value)
                ELSE OnRejected(es, list, fmt, value),
                list, fmt, k - 1)

\* the next link, entered with what the handler before it returned
Settle(link, list, fmt, k) == RunChain(link.es, list, fmt, link.settled, link.value, k)

ReportOptionsSet == {NoOptions, [showZeroCounts |-> FALSE], [showZeroCounts |-> TRUE]}

(***************************************************************************)
(* The operations of OpenApiCoverage.                                      *)
(***************************************************************************)
\* what an operation other than an exchange gives back: op, whether it threw,
\* what it printed; the other fields describe an exchange
Returned(op) ==
    [op |-> op, thrown |-> FALSE, observed |-> <<>>, calls |-> <<>>, settled |-> "none",
     value |-> "none", same |-> TRUE, console |-> <<>>]

\* OpenApiCoverage.use(firstAxiosInstance, options): the constructor
Init ==
    /\ specs = <<>>
    /\ coverage = EmptyMap
    /\ pathRegexList = <<>>
    /\ outputFormat \in {"none", "html"}
    /\ files = [written |-> FALSE]
    /\ interceptors = [i \in Instances |-> IF i = "first" THEN 1 ELSE 0]
    /\ result = Returned("constructor")
    /\ recorded = EmptyMap
    /\ nCalls = 0

RECURSIVE SumInterceptors(_)
SumInterceptors(is) ==
    IF is = {} THEN 0
    ELSE LET i == CHOOSE x \in is : TRUE IN interceptors[i] + SumInterceptors(is \ {i})

\* registerInterceptor: one more pair of handlers on the instance
RegisterInterceptor(ics, axiosInstance) == [ics EXCEPT ![axiosInstance] = @ + 1]

\* use(axiosInstance)
Use(axiosInstance) ==
    /\ SumInterceptors(Instances) < MaxInterceptors
    /\ interceptors' = RegisterInterceptor(interceptors, axiosInstance)
    /\ result' = Returned("use")
    /\ UNCHANGED <<specs, coverage, pathRegexList, outputFormat, files, recorded, nCalls>>

\* withSpecificationFromFile(specPath, options) -> registerSpecFromYaml
RegisterSpecFromYaml(file, options) ==
    /\ Len(specs) < MaxSpecs
    /\ IF Has(file, "missing")
       THEN /\ result' = [Returned("withSpecificationFromFile") EXCEPT !.thrown = TRUE]
            /\ UNCHANGED <<specs, coverage, pathRegexList>>
       ELSE \E done \in {InitializeCoverage(coverage, pathRegexList, file, options)} :
            /\ specs' = Append(specs, file)
            /\ coverage' = done.coverage
            /\ pathRegexList' = done.list
            /\ result' = [Returned("withSpecificationFromFile") EXCEPT !.thrown = done.threw]
    /\ UNCHANGED <<outputFormat, files, interceptors, recorded, nCalls>>

\* printCoverage(options)
PrintCoverage(reportOptions) ==
    /\ result' = [Returned("printCoverage") EXCEPT !.console =
                     GenerateCoverageTable(coverage,
                         IF Has(reportOptions, "showZeroCounts")
                         THEN reportOptions.showZeroCounts ELSE FALSE)]
    /\ UNCHANGED <<specs, coverage, pathRegexList, outputFormat, files, interceptors,
                   recorded, nCalls>>

\* an exchange of axiosInstance ends and its interceptor chain runs
Deliver(op, axiosInstance, settled, value) ==
    /\ nCalls < MaxCalls
    /\ \E end \in {RunChain([coverage |-> coverage, files |-> files,
                             recorded |-> recorded, calls |-> <<>>],
                            pathRegexList, outputFormat, settled, value,
                            interceptors[axiosInstance])} :
       /\ nCalls' = nCalls + 1
       /\ coverage' = end.es.coverage
       /\ files' = end.es.files
       /\ recorded' = end.es.recorded
       /\ result' = [op |-> op, thrown |-> FALSE, observed |-> value,
                     calls |-> end.es.calls, settled |-> end.settled,
                     value |-> IF Has(end.value, "isAxiosError") THEN "error" ELSE "response",
                     same |-> end.value = value,
                     console |-> [i \in DOMAIN end.es.calls |->
                                     IF end.es.calls[i].warned THEN "not a axios response"
                                     ELSE "nothing"]]
       /\ UNCHANGED <<specs, pathRegexList, outputFormat, interceptors>>

\* the client got a response with a status its validateStatus accepts
AxiosResponse(axiosInstance, response) ==
    Deliver("response", axiosInstance, "fulfilled", response)

\* the client got a failed status, or no response at all
AxiosError(axiosInstance, error) ==
    Deliver("error", axiosInstance, "rejected", error)

Next ==
    \/ \E i \in Instances : Use(i)
    \/ \E r \in Registrations : RegisterSpecFromYaml(r[1], r[2])
    \/ \E o \in ReportOptionsSet : PrintCoverage(o)
    \/ \E i \in Instances, r \in Responses : AxiosResponse(i, r)
    \/ \E i \in Instances, e \in Errors : AxiosError(i, e)

Spec == Init /\ [][Next]_vars

(***************************************************************************)
(* Definitions the properties below share.                                 *)
(***************************************************************************)
RecordedCount(t) == IF t \in DOMAIN recorded THEN recorded[t] ELSE 0

\* the entries of the matcher whose expression matches p, and the declared
\* path of the first of them
MatchingEntries(p) ==
    {i \in DOMAIN pathRegexList : RegexTest(pathRegexList[i].regex, p)}
FirstMatching(p) ==
    pathRegexList[CHOOSE i \in MatchingEntries(p) : \A j \in MatchingEntries(p) : i <= j].path

\* the latest operation was the exchange of a response (an error) that went
\* through at least one interceptor
ResponseObserved(res) == res.op = "response" /\ Len(res.calls) >= 1
ErrorObserved(res) == res.op = "error" /\ Len(res.calls) >= 1

\* the response normalizes, and the ledger has no counter for it
Undeclared(v) ==
    /\ Has(v, "status")
    /\ NormalizedPaths[v.config].ok
    /\ \/ MatchingEntries(NormalizedPaths[v.config].pathname) = {}
       \/ <<FirstMatching(NormalizedPaths[v.config].pathname),
            ToLowerCase(v.config.method), NumberToString(v.status)>> \notin Triples(coverage)

\* the triples a document declares, the catch-all path left out
DeclaredIn(doc) ==
    UNION {UNION {{<<doc.paths[k].path, doc.paths[k].entry[m].method, s>> :
                      s \in IF Has(doc.paths[k].entry[m].entry, "responses")
                            THEN doc.paths[k].entry[m].entry.responses ELSE {}}
                  : m \in DOMAIN doc.paths[k].entry}
           : k \in {j \in DOMAIN doc.paths : doc.paths[j].path /= ProxyPath}}

Declared == UNION {DeclaredIn(specs[i]) : i \in DOMAIN specs}

\* the number of slashes of a path or of a compiled expression
RECURSIVE Slashes(_)
Slashes(s) == IF s = <<>> THEN 0 ELSE (IF Head(s) = "/" THEN 1 ELSE 0) + Slashes(Tail(s))

(***************************************************************************)
(* C1: each counter of the ledger equals the number of handleResponse      *)
(* calls so far whose response resolved to its (path, method, status), for *)
(* every registration history; nothing else is counted.                    *)
(***************************************************************************)
C1_CounterIsNumberOfMatchingResponses ==
    /\ DOMAIN recorded \subseteq Triples(coverage)
    /\ \A t \in Triples(coverage) : Count(coverage, t) = RecordedCount(t)

\* two responses for one triple, counted 2, after two registrations
C1_Witness ==
    /\ Len(specs) = 2
    /\ \A i \in Instances : interceptors[i] <= 1
    /\ \E t \in Triples(coverage) : Count(coverage, t) = 2 /\ RecordedCount(t) = 2

(***************************************************************************)
(* C2: a response that no template matches, or whose resolved path, method *)
(* and status have no counter, leaves the whole ledger as it was (no       *)
(* counter changed, no key added) and no handler call rejects or throws.   *)
(***************************************************************************)
C2_UndeclaredResponseChangesNothing ==
    [][(ResponseObserved(result') /\ nCalls' = nCalls + 1 /\ Undeclared(result'.observed))
       => /\ coverage' = coverage
          /\ ~result'.thrown
          /\ \A k \in DOMAIN result'.calls : result'.calls[k].promise = "fulfilled"]_vars

\* GET /items -> {200}: a 200 was counted, then a 404 came and was not
C2_Witness ==
    /\ ResponseObserved(result)
    /\ result.observed = Response(CfgBase(MGet, UItems), 404)
    /\ \A k \in DOMAIN result.calls : result.calls[k].promise = "fulfilled"
    /\ Triples(coverage) = {<<PItems, MGet, S200>>}
    /\ Count(coverage, <<PItems, MGet, S200>>) = 1
    /\ nCalls = 2

(***************************************************************************)
(* C3: before any call is recorded the ledger holds a counter, equal to 0, *)
(* for exactly the triples the registered contracts declare (the catch-all *)
(* path excepted).                                                         *)
(***************************************************************************)
C3_LedgerIsTheDeclaredTriplesAtZero ==
    nCalls = 0 =>
        /\ Triples(coverage) = Declared
        /\ \A t \in Triples(coverage) : Count(coverage, t) = 0

\* the same, for histories in which every document has all its responses
\* mappings: this much the code does
C3_HoldsForCompleteDocuments ==
    (nCalls = 0 /\ \A i \in DOMAIN specs : specs[i] /= DocBad) =>
        /\ Triples(coverage) = Declared
        /\ \A t \in Triples(coverage) : Count(coverage, t) = 0

(***************************************************************************)
(* C4: a placeholder stands for exactly one segment: a compiled template   *)
(* never matches an observed path with another number of segments.         *)
(***************************************************************************)
C4_PlaceholderIsOneSegment ==
    \A i \in DOMAIN pathRegexList : \A r \in Responses :
        (NormalizedPaths[r.config].ok
         /\ RegexTest(pathRegexList[i].regex, NormalizedPaths[r.config].pathname))
        => Slashes(NormalizedPaths[r.config].pathname) = Slashes(pathRegexList[i].regex)

(***************************************************************************)
(* C5: matchPath gives the declared path of the first entry, in            *)
(* registration order, whose expression matches the observed path, and     *)
(* null when none does; a response changes counters of that path only.     *)
(***************************************************************************)
C5_FirstRegisteredWins ==
    [][(ResponseObserved(result') /\ nCalls' = nCalls + 1
        /\ Has(result'.observed, "status") /\ NormalizedPaths[result'.observed.config].ok)
       => /\ MatchPath(pathRegexList, NormalizedPaths[result'.observed.config].pathname)
             = IF MatchingEntries(NormalizedPaths[result'.observed.config].pathname) = {}
               THEN [found |-> FALSE]
               ELSE [found |-> TRUE,
                     path |-> FirstMatching(NormalizedPaths[result'.observed.config].pathname)]
          /\ \A t \in Triples(coverage) :
                 Count(coverage', t) /= Count(coverage, t)
                 => /\ MatchingEntries(NormalizedPaths[result'.observed.config].pathname) /= {}
                    /\ t[1] = FirstMatching(NormalizedPaths[result'.observed.config].pathname)]_vars

\* /users/{id} before /users/me: GET /users/me was counted under /users/{id}
C5_Witness ==
    /\ ResponseObserved(result)
    /\ result.observed = Response(CfgBase(MGet, UUsersMe), 200)
    /\ Len(pathRegexList) = 2
    /\ pathRegexList[1].path = PUsersId /\ pathRegexList[2].path = PUsersMe
    /\ Count(coverage, <<PUsersId, MGet, S200>>) = 1
    /\ Count(coverage, <<PUsersMe, MGet, S200>>) = 0

(***************************************************************************)
(* C6: one exchange delivered by an HTTP client raises the sum of all      *)
(* counters by at most 1, whatever was registered and however use() was    *)
(* chained.                                                                *)
(***************************************************************************)
C6_AtMostOneCountPerExchange ==
    [][Total(coverage') <= Total(coverage) + 1]_vars

(***************************************************************************)
(* C7: no step removes or lowers a counter; a registration leaves every    *)
(* counter that exists at its value and gives the counters it adds the     *)
(* value 0.                                                                *)
(***************************************************************************)
C7_CountersNeverDecrease ==
    [][/\ \A t \in Triples(coverage) :
              /\ t \in Triples(coverage')
              /\ Count(coverage', t) >= Count(coverage, t)
              /\ result'.op = "withSpecificationFromFile"
                 => Count(coverage', t) = Count(coverage, t)
       /\ \A t \in Triples(coverage') \ Triples(coverage) : Count(coverage', t) = 0]_vars

\* GET /items 200 counted once, then a second contract registered that
\* declares it again together with a new status and a new method
C7_Witness ==
    /\ result.op = "withSpecificationFromFile"
    /\ specs = <<DocItems, DocItemsProxy>>
    /\ Count(coverage, <<PItems, MGet, S200>>) = 1
    /\ Count(coverage, <<PItems, MGet, S404>>) = 0
    /\ Count(coverage, <<PItems, MPost, S201>>) = 0

(***************************************************************************)
(* C8: handleFailedResponse on an error without a response changes neither *)
(* the ledger nor the files, warns, and its promise is fulfilled; on an    *)
(* error with a response it does what handleResponse does on that          *)
(* response.                                                               *)
(***************************************************************************)
C8_FailedResponse ==
    [][(ErrorObserved(result') /\ nCalls' = nCalls + 1)
       => IF Has(result'.observed, "response")
          THEN Len(result'.calls) = 1
               => LET r == HandleResponse(coverage, files, pathRegexList, outputFormat,
                                          result'.observed.response)
                  IN /\ coverage' = r.coverage
                     /\ files' = r.files
                     /\ result'.calls[1] = [fn |-> "handleFailedResponse",
                                            promise |-> r.promise, warned |-> FALSE]
          ELSE /\ coverage' = coverage
               /\ files' = files
               /\ ~result'.thrown
               /\ result'.calls[1] = [fn |-> "handleFailedResponse",
                                      promise |-> "fulfilled", warned |-> TRUE]]_vars

\* a network failure met a ledger that had counted something
C8_Witness ==
    /\ ErrorObserved(result)
    /\ ~Has(result.observed, "response")
    /\ result.calls[1].warned
    /\ Total(coverage) = 1

(***************************************************************************)
(* C9: a response with neither a URL nor a base URL makes the record       *)
(* operation fail, and the failure reaches the caller of the HTTP client   *)
(* as a rejection; the ledger stays as it was.                             *)
(***************************************************************************)
C9_MissingUrlReachesTheCaller ==
    (/\ ResponseObserved(result)
     /\ ~Has(result.observed.config, "url")
     /\ ~Has(result.observed.config, "baseURL"))
    => /\ result.calls[1].promise = "rejected"
       /\ result.settled = "rejected"

(***************************************************************************)
(* C10: a registration that fails leaves the matcher list and the ledger   *)
(* exactly as they were before the call.                                   *)
(***************************************************************************)
C10_RegistrationIsAllOrNothing ==
    [][(result'.op = "withSpecificationFromFile" /\ result'.thrown)
       => (coverage' = coverage /\ pathRegexList' = pathRegexList)]_vars

(***************************************************************************)
(* Definitions the report properties share.                                *)
(***************************************************************************)
\* one record per counter of the ledger, with its count
RecordsOf(cov) ==
    {[path |-> t[1], method |-> t[2], status |-> t[3], count |-> Count(cov, t)]
     : t \in Triples(cov)}

\* a stands before b in the report: by path, then by method, then by status
Before(a, b) ==
    \/ LocaleCompare(a.path, b.path) < 0
    \/ a.path = b.path /\ LocaleCompare(a.method, b.method) < 0
    \/ a.path = b.path /\ a.method = b.method /\ LocaleCompare(a.status, b.status) < 0

\* records holds each record of the ledger once, in the order of the report
SortedLedger(records, cov) ==
    /\ Len(records) = Cardinality(Triples(cov))
    /\ {records[i] : i \in DOMAIN records} = RecordsOf(cov)
    /\ \A i, j \in DOMAIN records :
           i < j => Before(records[i], records[j]) /\ ~Before(records[j], records[i])

(***************************************************************************)
(* C11: generateCoverageRecords gives one record per counter of the        *)
(* ledger, with the counter's count, ordered by path, then method, then    *)
(* status; the order is strict, so the sequence is fixed by the ledger's   *)
(* contents whatever the order of registrations and calls.                 *)
(***************************************************************************)
C11_RecordsAreTheSortedLedger ==
    SortedLedger(GenerateCoverageRecords(coverage), coverage)

\* /users/{id} was registered before /items and the report starts with
\* /items; four records or more, one of them counted
C11_Witness ==
    /\ result.op = "printCoverage"
    /\ Len(result.console) >= 4
    /\ result.console = GenerateCoverageRecords(coverage)
    /\ pathRegexList[1].path = PUsersId
    /\ result.console[1].path = PItems
    /\ \E i \in DOMAIN result.console : result.console[i].count > 0

\* the option as generateCoverageTable reads it
ShowsZeroCounts(reportOptions) ==
    Has(reportOptions, "showZeroCounts") /\ reportOptions.showZeroCounts

\* rows holds each record of the ledger with a count above 0 once, and no
\* other row, in the order of the report
PositiveRows(rows, cov) ==
    /\ Len(rows) = Cardinality({r \in RecordsOf(cov) : r.count > 0})
    /\ {rows[i] : i \in DOMAIN rows} = {r \in RecordsOf(cov) : r.count > 0}
    /\ \A i, j \in DOMAIN rows : i < j => Before(rows[i], rows[j])

(***************************************************************************)
(* C12: printCoverage with showZeroCounts false, or without options,       *)
(* prints a row for exactly the records with a count above 0; with         *)
(* showZeroCounts true it prints a row for every counter of the ledger,    *)
(* those at 0 included; the rows are in the order of the records.          *)
(***************************************************************************)
C12_TableRowsFollowShowZeroCounts ==
    [][result'.op = "printCoverage" =>
          \A o \in ReportOptionsSet :
              PrintCoverage(o) =>
                  IF ShowsZeroCounts(o) THEN SortedLedger(result'.console, coverage)
                  ELSE PositiveRows(result'.console, coverage)]_vars

\* a report printed without the zero rows of a ledger that has some
C12_Witness ==
    /\ result.op = "printCoverage"
    /\ Len(result.console) >= 1
    /\ Len(result.console) < Cardinality(Triples(coverage))
    /\ \A i \in DOMAIN result.console : result.console[i].count > 0

\* the matcher holds entries for /items registered under the prefix /v1, and
\* no other entry
OnlyPrefixedItems ==
    /\ pathRegexList /= <<>>
    /\ \A i \in DOMAIN pathRegexList :
           pathRegexList[i] = [regex |-> PathToRegex(PrefixV1 \o PItems), path |-> PItems]

\* the prefix a registration's options give, '' by default
PrefixOf(options) == IF Has(options, "pathPrefix") THEN options.pathPrefix ELSE <<>>

\* the triple of a response whose path is the declared path /items
ItemsTriple(v) == <<PItems, ToLowerCase(v.config.method), NumberToString(v.status)>>

(***************************************************************************)
(* C13: a registration appends, for each path it enters, the expression    *)
(* compiled from prefix + declared path together with the declared path    *)
(* without the prefix, which is also the ledger's key.  With /items         *)
(* registered under the prefix /v1 only, the ledger and the report carry   *)
(* /items; a response for /v1/items raises the counter kept under /items   *)
(* and nothing else, and a response for any other path, /items without the *)
(* prefix included, leaves the ledger as it was.                           *)
(***************************************************************************)
C13_PrefixMatchesUnprefixedKeys ==
    [][/\ \A r \in Registrations :
              (/\ result'.op = "withSpecificationFromFile"
               /\ ~Has(r[1], "missing")
               /\ RegisterSpecFromYaml(r[1], r[2]))
              => /\ Len(pathRegexList') > Len(pathRegexList)
                 /\ \A i \in (DOMAIN pathRegexList') \ (DOMAIN pathRegexList) :
                        /\ pathRegexList'[i].path \in DOMAIN coverage'
                        /\ \E k \in DOMAIN r[1].paths :
                               pathRegexList'[i] =
                                   [regex |-> PathToRegex(PrefixOf(r[2]) \o r[1].paths[k].path),
                                    path |-> r[1].paths[k].path]
       /\ (/\ OnlyPrefixedItems
           /\ ResponseObserved(result') /\ nCalls' = nCalls + 1
           /\ Has(result'.observed, "status")
           /\ NormalizedPaths[result'.observed.config].ok)
          => /\ DOMAIN coverage' = {PItems}
             /\ \A i \in DOMAIN GenerateCoverageRecords(coverage') :
                    GenerateCoverageRecords(coverage')[i].path = PItems
             /\ Triples(coverage') = Triples(coverage)
             /\ IF /\ NormalizedPaths[result'.observed.config].pathname = PrefixV1 \o PItems
                   /\ ItemsTriple(result'.observed) \in Triples(coverage)
                THEN \A t \in Triples(coverage) :
                         IF t = ItemsTriple(result'.observed)
                         THEN Count(coverage', t) >= Count(coverage, t) + 1
                         ELSE Count(coverage', t) = Count(coverage, t)
                ELSE coverage' = coverage]_vars

\* a response for /v1/items counted under /items, then one for /items that
\* was not
C13_Witness ==
    /\ OnlyPrefixedItems
    /\ ResponseObserved(result)
    /\ result.observed = Response(CfgBase(MGet, UItems), 200)
    /\ nCalls = 2
    /\ Count(coverage, <<PItems, MGet, S200>>) = 1

(***************************************************************************)
(* C14: the catch-all path /{proxy+} never has an entry in the matcher nor *)
(* a key in the ledger, whatever was registered and under whatever prefix; *)
(* no handleResponse call resolved to it and no written or printed report  *)
(* carries it.                                                             *)
(***************************************************************************)
C14_CatchAllIsNeverEntered ==
    /\ \A i \in DOMAIN pathRegexList : pathRegexList[i].path /= ProxyPath
    /\ ProxyPath \notin DOMAIN coverage
    /\ \A t \in DOMAIN recorded : t[1] /= ProxyPath
    /\ \A i \in DOMAIN GenerateCoverageRecords(coverage) :
           GenerateCoverageRecords(coverage)[i].path /= ProxyPath
    /\ result.op = "printCoverage"
       => \A i \in DOMAIN result.console : result.console[i].path /= ProxyPath
    /\ files.written => \A i \in DOMAIN files.html : files.html[i].record.path /= ProxyPath

\* the document with the catch-all path registered under /v1, where the
\* catch-all would have matched /v1/items first; the call was counted under
\* /items
C14_Witness ==
    /\ specs = <<DocItemsProxy>>
    /\ pathRegexList = <<[regex |-> PathToRegex(PrefixV1 \o PItems), path |-> PItems]>>
    /\ ResponseObserved(result)
    /\ result.observed = Response(CfgBase(MGet, UV1Items), 200)
    /\ Count(coverage, <<PItems, MGet, S200>>) = 1

\* the step counted the response v once: its counter, when it has one, went
\* up by 1 and the rest of the ledger stayed
CountedOnce(v) ==
    IF ~Has(v, "status") \/ ~NormalizedPaths[v.config].ok \/ Undeclared(v)
    THEN coverage' = coverage
    ELSE coverage' =
             [coverage EXCEPT ![FirstMatching(NormalizedPaths[v.config].pathname)]
                                   [ToLowerCase(v.config.method)]
                                   .responses[NumberToString(v.status)] = @ + 1]

(***************************************************************************)
(* C15: the instances chained with use() feed one ledger: a response       *)
(* delivered by any instance the engine was hooked onto is counted once,   *)
(* against the same counters whichever instance it came through, so a      *)
(* counter is the number of matching responses over all the instances.     *)
(***************************************************************************)
C15_CounterIsTotalOverInstances ==
    [][result'.op = "response" =>
          \A i \in Instances :
              (interceptors[i] >= 1 /\ AxiosResponse(i, result'.observed))
              => CountedOnce(result'.observed)]_vars

\* the same, for instances that were handed to the engine once: this much
\* the code does
C15_HoldsForInstancesUsedOnce ==
    [][result'.op = "response" =>
          \A i \in Instances :
              (interceptors[i] = 1 /\ AxiosResponse(i, result'.observed))
              => CountedOnce(result'.observed)]_vars

\* two instances hooked once each, two responses, one counter at 2
C15_SharedLedgerReached ==
    /\ \A i \in Instances : interceptors[i] = 1
    /\ nCalls = 2
    /\ ResponseObserved(result)
    /\ \E t \in Triples(coverage) : Count(coverage, t) = 2

\* s up to its query string or fragment
RECURSIVE UpToQuery(_)
UpToQuery(s) ==
    IF s = <<>> \/ Head(s) \in {"?", "#"} THEN <<>> ELSE <<Head(s)>> \o UpToQuery(Tail(s))

\* the base URL followed by the request URL, or the request URL alone
Concatenated(config) ==
    IF Has(config, "baseURL") THEN config.baseURL \o config.url ELSE config.url

\* what follows the origin https://api.example.com in s
AfterOrigin(s) == SubSeq(s, Len(Origin) + 1, Len(s))

\* the latest exchange went through an interceptor and its request had a URL
\* on the origin, given whole or split into base URL and URL
UrlObserved(res) ==
    /\ res.op \in {"response", "error"}
    /\ Len(res.calls) >= 1
    /\ Has(res.observed.config, "url")
    /\ OccursAt(Concatenated(res.observed.config), Origin \o <<"/">>, 1)

(***************************************************************************)
(* C16: normalizePath of a request whose base URL and URL together give a  *)
(* URL on https://api.example.com is what follows the host up to the query *)
(* string or fragment, and it is the same when the whole URL is given in   *)
(* url alone.                                                              *)
(***************************************************************************)
C16_NormalizePathIsThePathComponent ==
    UrlObserved(result) =>
        /\ NormalizedPaths[result.observed.config] =
               [ok |-> TRUE,
                pathname |-> UpToQuery(AfterOrigin(Concatenated(result.observed.config)))]
        /\ NormalizePath([method |-> result.observed.config.method,
                          url |-> Concatenated(result.observed.config)])
           = NormalizedPaths[result.observed.config]

\* GET /items?q=1#f on the base URL, counted under /items
C16_Witness ==
    /\ ResponseObserved(result)
    /\ result.observed = Response(CfgBase(MGet, UItemsQuery), 200)
    /\ NormalizedPaths[result.observed.config].pathname = PItems
    /\ <<PItems, MGet, S200>> \in Triples(coverage)
    /\ Count(coverage, <<PItems, MGet, S200>>) = 1

\* coverage.json holds the ledger cov, and coverage_output.html one row per
\* counter of it in report order, the zero counts in red
Snapshot(fls, cov) ==
    /\ fls.written
    /\ fls.json = cov
    /\ SortedLedger([i \in DOMAIN fls.html |-> fls.html[i].record], cov)
    /\ \A i \in DOMAIN fls.html : fls.html[i].red <=> fls.html[i].record.count = 0

\* a handleResponse call of the exchange, direct or through
\* handleFailedResponse, ran to its end
Completed(calls) ==
    \E k \in DOMAIN calls : calls[k].promise = "fulfilled" /\ ~calls[k].warned

(***************************************************************************)
(* C17: with outputFormat html, a step in which a handleResponse call      *)
(* completes, counted or not, leaves coverage.json and                     *)
(* coverage_output.html holding the whole ledger as it then is, zero       *)
(* counts included, and no other step (a registration, a report, a network *)
(* failure without a response, a call that rejects) touches the files;     *)
(* with outputFormat none no step writes a file.                           *)
(***************************************************************************)
C17_FilesFollowTheLedger ==
    [][/\ outputFormat = "none" => (files' = files /\ ~files'.written)
       /\ outputFormat = "html" =>
              IF Completed(result'.calls)
              THEN Snapshot(files', coverage')
              ELSE files' = files]_vars

\* html: a first response that matched no counter, and the files hold the
\* ledger with its zero counts
C17_Witness ==
    /\ outputFormat = "html"
    /\ ResponseObserved(result)
    /\ nCalls = 1
    /\ Completed(result.calls)
    /\ Total(coverage) = 0
    /\ files.written
    /\ Len(files.html) >= 2
    /\ \A i \in DOMAIN files.html : files.html[i].red

(***************************************************************************)
(* C18: the matcher holds one entry per declared path: no two entries of   *)
(* the list carry the same declared path, also after a path is registered  *)
(* again.                                                                  *)
(***************************************************************************)
C18_OneEntryPerDeclaredPath ==
    \A i, j \in DOMAIN pathRegexList :
        pathRegexList[i].path = pathRegexList[j].path => i = j

\* the method keys under the declared path p that equal the method of v when
\* case is ignored and that declare the status of v
SameMethodIgnoringCase(p, v) ==
    {k \in DOMAIN coverage[p] :
        /\ ToLowerCase(k) = ToLowerCase(v.config.method)
        /\ NumberToString(v.status) \in DOMAIN coverage[p][k].responses}

(***************************************************************************)
(* C19: methods are compared without regard to case on both sides: a       *)
(* response whose path resolves to a declared path is counted if and only  *)
(* if that path declares its status under a method key equal to the        *)
(* observed method when case is ignored.                                   *)
(***************************************************************************)
C19_MethodsCompareIgnoringCase ==
    [][(/\ ResponseObserved(result') /\ nCalls' = nCalls + 1
        /\ Has(result'.observed, "status")
        /\ NormalizedPaths[result'.observed.config].ok
        /\ MatchingEntries(NormalizedPaths[result'.observed.config].pathname) /= {})
       => (Total(coverage') > Total(coverage)
           <=> SameMethodIgnoringCase(
                   FirstMatching(NormalizedPaths[result'.observed.config].pathname),
                   result'.observed) /= {})]_vars

\* the same, for contracts whose method keys are in lower case: this much
\* the code does
C19_HoldsForLowerCaseKeys ==
    [][(/\ ResponseObserved(result') /\ nCalls' = nCalls + 1
        /\ Has(result'.observed, "status")
        /\ NormalizedPaths[result'.observed.config].ok
        /\ MatchingEntries(NormalizedPaths[result'.observed.config].pathname) /= {}
        /\ \A t \in Triples(coverage) : t[2] = ToLowerCase(t[2]))
       => (Total(coverage') > Total(coverage)
           <=> SameMethodIgnoringCase(
                   FirstMatching(NormalizedPaths[result'.observed.config].pathname),
                   result'.observed) /= {})]_vars

(***************************************************************************)
(* C20: the caller of an instrumented client gets what the client had for  *)
(* it: a response as the same response, fulfilled, and a failure as the    *)
(* same error, rejected.                                                   *)
(***************************************************************************)
C20_OutcomeIsUnchanged ==
    /\ ResponseObserved(result)
       => (result.settled = "fulfilled" /\ result.value = "response" /\ result.same)
    /\ ErrorObserved(result)
       => (result.settled = "rejected" /\ result.value = "error" /\ result.same)

\* the half about responses, and the error object of a failure: this much
\* the code does
C20_HoldsForResponses ==
    /\ ResponseObserved(result)
       => (result.settled = "fulfilled" /\ result.value = "response" /\ result.same)
    /\ ErrorObserved(result) => (result.value = "error" /\ result.same)

====
